---- MODULE Spec2Model ----
(***************************************************************************)
(* A model of clang-tidy's driver, clang-tidy/ClangTidy.cpp:               *)
(*   - ErrorReporter / handleErrors: reporting diagnostics and applying    *)
(*     their fix-it replacements (specification Spec);                     *)
(*   - ClangTidyASTConsumerFactory: the check inventory and the static     *)
(*     analyzer's checkers control list (specification SpecFilter);        *)
(*   - AnalyzerDiagnosticConsumer: turning the analyzer's path diagnostics *)
(*     into clang-tidy diagnostics (specification SpecFlush).              *)
(***************************************************************************)
EXTENDS Integers, Sequences, FiniteSets, TLC

\* ------------------------------------------------------------------ bounds

\* The number of ClangTidyErrors handed to handleErrors.
MaxErrors == 2
\* The number of Replacements of one run (caps TotalFixes).
MaxTotalFixes == 2
\* Replacement offsets are 0..MaxOffset.
MaxOffset == 1
\* The number of rules of a checks filter.
MaxRules == 2
\* The number of path diagnostics of one flushed batch.
MaxBatch == 2
\* The number of pieces of one path.
MaxPathLen == 2

\* ------------------------------------------------------------- file system

\* Files FileManager::getFile finds.
ReadableFiles == {"a.cc", "b.cc"}
\* A path FileManager::getFile returns a null FileEntry for.
UnreadableFiles == {"gone.cc"}
\* Replacement lengths: an insertion and a two-byte range.
Lengths == {0, 2}

Replacements ==
    [FilePath : ReadableFiles, Offset : 0..MaxOffset, Length : Lengths,
     ReplacementText : {"x"}]
    \cup [FilePath : UnreadableFiles \cup {""}, Offset : {0}, Length : {2},
          ReplacementText : {"x"}]

\* Sequences over S of length at most n.
SeqUpTo(S, n) == UNION {[1..k -> S] : k \in 0..n}

MainMessage == [Message |-> "msg", FilePath |-> "a.cc", FileOffset |-> 0]
NoteMessage == [Message |-> "note", FilePath |-> "a.cc", FileOffset |-> 1]

\* The ClangTidyErrors with at most n Replacements.
ClangTidyErrors(n) ==
    [Message : {MainMessage}, CheckName : {"check"}, DiagLevel : {"Warning"},
     Fix : SeqUpTo(Replacements, n), Notes : {<<>>, <<NoteMessage>>}]

VARIABLES
    pc,            \* handleErrors: "reporting", "done", or "aborted"
    ApplyFixes,    \* ErrorReporter::ApplyFixes
    TotalFixes,    \* ErrorReporter::TotalFixes
    AppliedFixes,  \* ErrorReporter::AppliedFixes
    Rewrite,       \* ErrorReporter::Rewrite: per file, the edits of its buffer
    Output,        \* what Diags has reported to the printer, in order
    Errs,          \* the lines written to llvm::errs()
    Disk,          \* per file, the edits written into its original content
    Writes,        \* per file, how many times it was overwritten
    Reported,      \* the ClangTidyErrors reportDiagnostic was called with
    Filter,        \* Context.getChecksFilter()
    Called,        \* which of the factory's entry points have returned
    CheckNames,    \* what getCheckNames returned
    CheckersControlList,  \* AnalyzerOptions->CheckersControlList
    Consumers,     \* the consumers CreateASTConsumer multiplexes
    Flushed,       \* the batch FlushDiagnosticsImpl was called with
    ContextDiags   \* the Context.diag calls made, in order

fixVars == <<pc, ApplyFixes, TotalFixes, AppliedFixes, Rewrite, Output, Errs,
             Disk, Writes, Reported>>
filterVars == <<Filter, Called, CheckNames, CheckersControlList, Consumers>>
flushVars == <<Flushed, ContextDiags>>
vars == <<fixVars, filterVars, flushVars>>

\* ---------------------------------------------------------- ErrorReporter

InvalidLoc == [File |-> "", Offset |-> 0]

\* FileManager::getFile returns null for this path.
NullFileEntry(FilePath) == FilePath \notin ReadableFiles

getLocWithOffset(Loc, Offset) ==
    IF Loc = InvalidLoc THEN Loc ELSE [Loc EXCEPT !.Offset = @ + Offset]

getLocation(FilePath, Offset) ==
    IF FilePath = "" THEN InvalidLoc
    ELSE getLocWithOffset([File |-> FilePath, Offset |-> 0], Offset)

\* Replacement::isApplicable: the path is not the invalid ("") one.
isApplicable(Fix) == Fix.FilePath # ""

\* Replacement::apply: false when the file has no FileEntry, else the edit
\* goes into the file's rewrite buffer and the call returns true.
applySucceeds(Fix) == ~NullFileEntry(Fix.FilePath)

applyTo(Fix, Rw) ==
    [Rw EXCEPT ![Fix.FilePath] = Append(@, Fix)]

\* bool Success = Fix.isApplicable() && Fix.apply(Rewrite);
Success(Fix) == isApplicable(Fix) /\ applySucceeds(Fix)

\* ++TotalFixes;
TotalAfterFix(Total, Apply) == Total + 1

AppliedAfterFixIgnoringMode(Applied, Apply, Ok) == IF Ok THEN Applied + 1 ELSE Applied
\* if (ApplyFixes) { ... if (Success) ++AppliedFixes; ... }
AppliedAfterFix(Applied, Apply, Ok) ==
    IF Apply /\ Ok THEN Applied + 1 ELSE Applied

FixLocationsAfterFixOnlyApplied(Locs, Apply, FixLoc, Ok) ==
    IF Apply /\ Ok THEN Append(Locs, <<FixLoc, Ok>>) ELSE Locs
\* if (ApplyFixes) { ... FixLocations.push_back(std::make_pair(FixLoc, Success)); }
FixLocationsAfterFix(Locs, Apply, FixLoc, Ok) ==
    IF Apply THEN Append(Locs, <<FixLoc, Ok>>) ELSE Locs

\* The state the loop over Error.Fix works on.
LoopStart(Rw, Total, Applied) ==
    [Rewrite |-> Rw, TotalFixes |-> Total, AppliedFixes |-> Applied,
     Hints |-> <<>>, FixLocations |-> <<>>, crashed |-> FALSE]

\* for (const tooling::Replacement &Fix : Error.Fix) { ... }
\* getLocation hands a null FileEntry to SourceManager::createFileID, which
\* is undefined: `crash` is whether the build stops there (an assertion, a
\* null dereference) or goes on with a location in an empty buffer.
RECURSIVE FixLoop(_, _, _, _)
FixLoop(Fixes, st, Apply, crash) ==
    IF Fixes = <<>> \/ st.crashed THEN st
    ELSE LET Fix == Head(Fixes)
         IN  IF Fix.FilePath # "" /\ NullFileEntry(Fix.FilePath) /\ crash
             THEN [st EXCEPT !.crashed = TRUE]
             ELSE LET FixLoc == getLocation(Fix.FilePath, Fix.Offset)
                      FixEndLoc == getLocWithOffset(FixLoc, Fix.Length)
                      Ok == Success(Fix)
                  IN  FixLoop(Tail(Fixes),
                        [st EXCEPT
                           !.Hints = Append(@, [Begin |-> FixLoc, End |-> FixEndLoc,
                                                Text |-> Fix.ReplacementText]),
                           !.TotalFixes = TotalAfterFix(@, Apply),
                           !.AppliedFixes = AppliedAfterFix(@, Apply, Ok),
                           !.Rewrite = IF Apply /\ Ok THEN applyTo(Fix, @) ELSE @,
                           !.FixLocations = FixLocationsAfterFix(@, Apply, FixLoc, Ok)],
                        Apply, crash)

Line(Kind, Level, Loc, Text, CheckName, Hints) ==
    [Kind |-> Kind, Level |-> Level, Loc |-> Loc, Text |-> Text,
     CheckName |-> CheckName, Hints |-> Hints]

\* Diags.Report(Loc, "%0 [%1]") << Message.Message << Error.CheckName, with
\* the fix-it hints the loop attached.
DiagLine(Error, Hints) ==
    Line("diag", Error.DiagLevel,
         getLocation(Error.Message.FilePath, Error.Message.FileOffset),
         Error.Message.Message, Error.CheckName, Hints)

\* Diags.Report(Fix.first, Fix.second ? note_fixit_applied : note_fixit_failed)
FixNoteLine(FixLocation) ==
    Line(IF FixLocation[2] THEN "note_fixit_applied" ELSE "note_fixit_failed",
         "Note", FixLocation[1], "", "", <<>>)

\* ErrorReporter::reportNote
reportNote(Note) ==
    Line("note", "Note", getLocation(Note.FilePath, Note.FileOffset),
         Note.Message, "", <<>>)

MapSeq(Op(_), s) == [i \in DOMAIN s |-> Op(s[i])]

\* What one reportDiagnostic call prints: the diagnostic, one note per entry
\* of FixLocations, then the error's own notes.
ReportedLines(Error, st) ==
    <<DiagLine(Error, st.Hints)>> \o MapSeq(FixNoteLine, st.FixLocations)
        \o MapSeq(reportNote, Error.Notes)

\* ErrorReporter::reportDiagnostic, called from handleErrors' loop.
reportDiagnostic(Error, crash) ==
    /\ pc = "reporting"
    /\ LET st == FixLoop(Error.Fix, LoopStart(Rewrite, TotalFixes, AppliedFixes),
                         ApplyFixes, crash)
       IN  /\ Rewrite' = st.Rewrite
           /\ TotalFixes' = st.TotalFixes
           /\ AppliedFixes' = st.AppliedFixes
           /\ IF st.crashed
              THEN pc' = "aborted" /\ Output' = Output
              ELSE pc' = pc /\ Output' = Output \o ReportedLines(Error, st)
    /\ Reported' = Append(Reported, Error)
    /\ UNCHANGED <<ApplyFixes, Errs, Disk, Writes, filterVars, flushVars>>

\* Rewriter::overwriteChangedFiles: every file with a rewrite buffer.
overwriteChangedFiles(Rw, D) ==
    [f \in DOMAIN D |-> IF Rw[f] # <<>> THEN Rw[f] ELSE D[f]]

FinishIgnoringMode ==
    /\ pc = "reporting"
    /\ pc' = "done"
    /\ IF TotalFixes > 0
       THEN /\ Errs' = Append(Errs, [Applied |-> AppliedFixes, Of |-> TotalFixes])
            /\ Disk' = overwriteChangedFiles(Rewrite, Disk)
            /\ Writes' = [f \in DOMAIN Writes |->
                             IF Rewrite[f] # <<>> THEN Writes[f] + 1 ELSE Writes[f]]
       ELSE UNCHANGED <<Errs, Disk, Writes>>
    /\ UNCHANGED <<ApplyFixes, TotalFixes, AppliedFixes, Rewrite, Output, Reported,
                   filterVars, flushVars>>
\* ErrorReporter::Finish, called once the loop of handleErrors has ended.
Finish ==
    /\ pc = "reporting"
    /\ pc' = "done"
    /\ IF ApplyFixes /\ TotalFixes > 0
       THEN /\ Errs' = Append(Errs, [Applied |-> AppliedFixes, Of |-> TotalFixes])
            /\ Disk' = overwriteChangedFiles(Rewrite, Disk)
            /\ Writes' = [f \in DOMAIN Writes |->
                             IF Rewrite[f] # <<>> THEN Writes[f] + 1 ELSE Writes[f]]
       ELSE UNCHANGED <<Errs, Disk, Writes>>
    /\ UNCHANGED <<ApplyFixes, TotalFixes, AppliedFixes, Rewrite, Output, Reported,
                   filterVars, flushVars>>

\* ------------------------------------------------------------- check names

\* Strings are sequences of characters; Chars lists the characters in use
\* in the order of their codes, which is the order std::string compares by.
Chars == <<"*", "-", ".", "D", "M", "N", "V", "a", "b", "c", "d", "e", "f",
           "g", "i", "l", "n", "o", "r", "u", "x", "y", "z">>

Ord(c) == CHOOSE i \in DOMAIN Chars : Chars[i] = c

\* std::string's operator<.
RECURSIVE StrLess(_, _)
StrLess(a, b) ==
    IF b = <<>> THEN FALSE
    ELSE IF a = <<>> THEN TRUE
    ELSE IF Head(a) = Head(b) THEN StrLess(Tail(a), Tail(b))
    ELSE Ord(Head(a)) < Ord(Head(b))

\* StringRef::startswith
startswith(s, prefix) ==
    Len(s) >= Len(prefix) /\ SubSeq(s, 1, Len(prefix)) = prefix

\* static const char *AnalyzerCheckNamePrefix = "clang-analyzer-";
AnalyzerCheckNamePrefix ==
    <<"c", "l", "a", "n", "g", "-", "a", "n", "a", "l", "y", "z", "e", "r", "-">>

StrCore == <<"c", "o", "r", "e">>
StrDebug == <<"d", "e", "b", "u", "g">>

\* StaticAnalyzerChecks[], the checker table of Checkers.inc: here two core
\* checkers, a debug checker and one of another package, in table order.
StaticAnalyzerChecks ==
    << <<"u", "n", "i", "x", ".", "M">>,
       <<"c", "o", "r", "e", ".", "N">>,
       <<"d", "e", "b", "u", "g", ".", "V">>,
       <<"c", "o", "r", "e", ".", "D">> >>

\* *CheckFactories: the registered checks, in the map's iteration order.
CheckFactories == << <<"b", "a", "r">>, <<"f", "o", "o">> >>

Range(s) == {s[i] : i \in DOMAIN s}

\* ------------------------------------------------------------ ChecksFilter

\* A glob matches a name: '*' stands for any substring.
RECURSIVE GlobMatch(_, _)
GlobMatch(glob, name) ==
    IF glob = <<>> THEN name = <<>>
    ELSE IF Head(glob) = "*"
         THEN GlobMatch(Tail(glob), name)
              \/ (name # <<>> /\ GlobMatch(glob, Tail(name)))
         ELSE name # <<>> /\ Head(name) = Head(glob)
              /\ GlobMatch(Tail(glob), Tail(name))

\* The globs filters are built from.
Globs ==
    { <<"*">>,
      AnalyzerCheckNamePrefix \o <<"*">>,
      AnalyzerCheckNamePrefix \o StrCore \o <<"*">>,
      AnalyzerCheckNamePrefix \o StrDebug \o <<"*">>,
      AnalyzerCheckNamePrefix \o StaticAnalyzerChecks[1],
      CheckFactories[2] }

FilterRules == [Positive : BOOLEAN, Glob : Globs]

Filters == [Rules : SeqUpTo(FilterRules, MaxRules), Default : BOOLEAN]

\* ChecksFilter::isCheckEnabled: the last rule whose glob matches decides,
\* and the filter's default when none matches.
RECURSIVE LastMatch(_, _, _)
LastMatch(Rules, Name, Contains) ==
    IF Rules = <<>> THEN Contains
    ELSE LastMatch(Tail(Rules), Name,
                   IF GlobMatch(Head(Rules).Glob, Name)
                   THEN Head(Rules).Positive ELSE Contains)

isCheckEnabled(F, Name) == LastMatch(F.Rules, Name, F.Default)

\* ---------------------------------------------- ClangTidyASTConsumerFactory

AnalyzerChecksEnabledAnyChecker(F) ==
    \E i \in DOMAIN StaticAnalyzerChecks :
        isCheckEnabled(F, AnalyzerCheckNamePrefix \o StaticAnalyzerChecks[i])
\* The first loop of getCheckersControlList.
AnalyzerChecksEnabled(F) ==
    \E i \in DOMAIN StaticAnalyzerChecks :
        /\ ~startswith(StaticAnalyzerChecks[i], StrDebug)
        /\ isCheckEnabled(F, AnalyzerCheckNamePrefix \o StaticAnalyzerChecks[i])

ListedOnlyWhenEnabled(F, CheckName) ==
    /\ ~startswith(CheckName, StrDebug)
    /\ isCheckEnabled(F, AnalyzerCheckNamePrefix \o CheckName)
\* The condition of the second loop of getCheckersControlList.
Listed(F, CheckName) ==
    \/ startswith(CheckName, StrCore)
    \/ /\ ~startswith(CheckName, StrDebug)
       /\ isCheckEnabled(F, AnalyzerCheckNamePrefix \o CheckName)

\* ClangTidyASTConsumerFactory::getCheckersControlList
getCheckersControlList(F) ==
    IF AnalyzerChecksEnabled(F)
    THEN LET keep(CheckName) == Listed(F, CheckName)
             Kept == SelectSeq(StaticAnalyzerChecks, keep)
         IN  [i \in DOMAIN Kept |-> <<Kept[i], TRUE>>]
    ELSE <<>>

\* std::sort: insertion into a sorted sequence.
RECURSIVE InsertSorted(_, _)
InsertSorted(x, s) ==
    IF s = <<>> THEN <<x>>
    ELSE IF StrLess(x, Head(s)) THEN <<x>> \o s
    ELSE <<Head(s)>> \o InsertSorted(x, Tail(s))

RECURSIVE Sort(_)
Sort(s) == IF s = <<>> THEN <<>> ELSE InsertSorted(Head(s), Sort(Tail(s)))

\* CheckFactories->createChecks(Filter, Checks): the enabled factories.
createChecks(F) ==
    LET enabled(Name) == isCheckEnabled(F, Name)
    IN  SelectSeq(CheckFactories, enabled)

getCheckNamesUnsorted(F) ==
    LET List == getCheckersControlList(F)
    IN  createChecks(F) \o [i \in DOMAIN List |-> AnalyzerCheckNamePrefix \o List[i][1]]
\* ClangTidyASTConsumerFactory::getCheckNames
getCheckNames(F) ==
    LET List == getCheckersControlList(F)
    IN  Sort(createChecks(F)
             \o [i \in DOMAIN List |-> AnalyzerCheckNamePrefix \o List[i][1]])

\* getCheckNames(Options): Factory.getCheckNames(Context.getChecksFilter()).
GetCheckNames ==
    /\ "getCheckNames" \notin Called
    /\ Called' = Called \cup {"getCheckNames"}
    /\ CheckNames' = getCheckNames(Filter)
    /\ UNCHANGED <<Filter, CheckersControlList, Consumers, fixVars, flushVars>>

\* ClangTidyASTConsumerFactory::CreateASTConsumer
CreateASTConsumer ==
    /\ "CreateASTConsumer" \notin Called
    /\ Called' = Called \cup {"CreateASTConsumer"}
    /\ LET List == getCheckersControlList(Filter)
       IN  /\ CheckersControlList' = List
           /\ Consumers' =
                 (IF createChecks(Filter) # <<>> THEN <<"MatchFinder">> ELSE <<>>)
                 \o (IF List # <<>> THEN <<"AnalysisConsumer">> ELSE <<>>)
    /\ UNCHANGED <<Filter, CheckNames, fixVars, flushVars>>

\* ----------------------------------------------- AnalyzerDiagnosticConsumer

Event(String, Offset) ==
    [Kind |-> "Event", String |-> String, Loc |-> [File |-> "a.cc", Offset |-> Offset],
     Ranges |-> <<Offset>>, subPieces |-> <<>>]

\* The pieces paths are built from: an event, and a macro piece that holds
\* two more.
PathPieces ==
    { Event("e1", 1),
      [Kind |-> "Macro", String |-> "m", Loc |-> [File |-> "a.cc", Offset |-> 3],
       Ranges |-> <<3>>, subPieces |-> <<Event("m1", 4), Event("m2", 5)>>] }

\* A path is never empty: it ends with the piece of the defect itself.
Paths == SeqUpTo(PathPieces, MaxPathLen) \ {<<>>}

\* The checkers that report: StaticAnalyzerChecks[1] and [2].
PathDiagnostics ==
    [CheckName : {StaticAnalyzerChecks[1], StaticAnalyzerChecks[2]},
     ShortDescription : {"short"}, VerboseDescription : {"verbose"},
     Loc : {[File |-> "a.cc", Offset |-> 9]}, path : Paths]

\* PathPieces::flatten: events stay, and with ShouldFlattenMacros a macro
\* piece gives way to its sub-pieces.
RECURSIVE flatten(_, _)
flatten(path, ShouldFlattenMacros) ==
    IF path = <<>> THEN <<>>
    ELSE LET Piece == Head(path)
         IN  (IF Piece.Kind = "Macro" /\ ShouldFlattenMacros
              THEN flatten(Piece.subPieces, ShouldFlattenMacros)
              ELSE <<Piece>>)
             \o flatten(Tail(path), ShouldFlattenMacros)

\* ClangTidyContext::diag's default level.
DefaultLevel == "Warning"

\* ClangTidyContext::diag(CheckName, Loc, Message, Level) << Ranges
ContextDiag(CheckName, Loc, Message, Level, Ranges) ==
    [CheckName |-> CheckName, Loc |-> Loc, Message |-> Message, Level |-> Level,
     Ranges |-> Ranges]

\* Context.diag(CheckName, PD->getLocation().asLocation(),
\*              PD->getShortDescription()) << PD->path.back()->getRanges();
PrimaryDiag(PD) ==
    ContextDiag(AnalyzerCheckNamePrefix \o PD.CheckName, PD.Loc,
                PD.ShortDescription, DefaultLevel, PD.path[Len(PD.path)].Ranges)

\* Context.diag(CheckName, DiagPiece->getLocation().asLocation(),
\*              DiagPiece->getString(), DiagnosticIDs::Note)
\*     << DiagPiece->getRanges();
PieceNote(PD, DiagPiece) ==
    ContextDiag(AnalyzerCheckNamePrefix \o PD.CheckName, DiagPiece.Loc,
                DiagPiece.String, "Note", DiagPiece.Ranges)

PathNotesReversed(PD) ==
    LET Flat == flatten(PD.path, TRUE)
    IN  [i \in DOMAIN Flat |-> PieceNote(PD, Flat[Len(Flat) + 1 - i])]
\* for (const auto &DiagPiece : PD->path.flatten(true)) { ... }
PathNotes(PD) ==
    LET Flat == flatten(PD.path, TRUE)
    IN  [i \in DOMAIN Flat |-> PieceNote(PD, Flat[i])]

\* for (const ento::PathDiagnostic *PD : Diags) { ... }
RECURSIVE FlushLoop(_)
FlushLoop(Diags) ==
    IF Diags = <<>> THEN <<>>
    ELSE <<PrimaryDiag(Head(Diags))>> \o PathNotes(Head(Diags))
         \o FlushLoop(Tail(Diags))

\* AnalyzerDiagnosticConsumer::FlushDiagnosticsImpl
FlushDiagnosticsImpl(Diags) ==
    /\ "FlushDiagnosticsImpl" \notin Called
    /\ Called' = Called \cup {"FlushDiagnosticsImpl"}
    /\ Flushed' = Diags
    /\ ContextDiags' = ContextDiags \o FlushLoop(Diags)
    /\ UNCHANGED <<Filter, CheckNames, CheckersControlList, Consumers, fixVars>>

\* ---------------------------------------------------------- specifications

NoFilter == [Rules |-> <<>>, Default |-> FALSE]

FixIdle ==
    /\ TotalFixes = 0
    /\ AppliedFixes = 0
    /\ Rewrite = [f \in ReadableFiles |-> <<>>]
    /\ Output = <<>>
    /\ Errs = <<>>
    /\ Disk = [f \in ReadableFiles |-> <<>>]
    /\ Writes = [f \in ReadableFiles |-> 0]
    /\ Reported = <<>>

FactoryIdle ==
    /\ Called = {}
    /\ CheckNames = <<>>
    /\ CheckersControlList = <<>>
    /\ Consumers = <<>>
    /\ Flushed = <<>>
    /\ ContextDiags = <<>>

\* handleErrors(Errors, Fix): ErrorReporter Reporter(Fix).
Init ==
    /\ pc = "reporting"
    /\ ApplyFixes \in BOOLEAN
    /\ FixIdle
    /\ Filter = NoFilter
    /\ FactoryIdle

\* handleErrors: for (Error : Errors) Reporter.reportDiagnostic(Error);
\* the vector holds at most MaxErrors errors and MaxTotalFixes replacements.
NextError ==
    /\ pc = "reporting"
    /\ Len(Reported) < MaxErrors
    /\ \E Error \in ClangTidyErrors(MaxTotalFixes - TotalFixes), crash \in BOOLEAN :
           reportDiagnostic(Error, crash)

Next ==
    \/ NextError
    \/ Finish

Spec == Init /\ [][Next]_vars

\* A factory whose context holds any of the filters.
InitFilter ==
    /\ pc = "idle"
    /\ ApplyFixes = FALSE
    /\ FixIdle
    /\ Filter \in Filters
    /\ FactoryIdle

NextFilter ==
    \/ GetCheckNames
    \/ CreateASTConsumer

SpecFilter == InitFilter /\ [][NextFilter]_vars

\* An analyzer consumer that has reported nothing yet.
InitFlush ==
    /\ pc = "idle"
    /\ ApplyFixes = FALSE
    /\ FixIdle
    /\ Filter = NoFilter
    /\ FactoryIdle

NextFlush ==
    /\ "FlushDiagnosticsImpl" \notin Called
    /\ \E Diags \in SeqUpTo(PathDiagnostics, MaxBatch) : FlushDiagnosticsImpl(Diags)

SpecFlush == InitFlush /\ [][NextFlush]_vars

\* ------------------------------------------------------ reading the output

DiagLines == {k \in DOMAIN Output : Output[k].Kind = "diag"}

IsFixNote(L) == L.Kind \in {"note_fixit_applied", "note_fixit_failed"}

\* The fix notes that follow the diagnostic printed as line k.
FixNotesAfter(k) ==
    LET n == CHOOSE m \in 0..(Len(Output) - k) :
                 /\ \A i \in 1..m : IsFixNote(Output[k + i])
                 /\ k + m + 1 \in DOMAIN Output => ~IsFixNote(Output[k + m + 1])
    IN  SubSeq(Output, k + 1, k + n)

\* The edits the output tells of: <<k, i>> is hint i of the diagnostic of
\* line k, in report order.
Attempts == {a \in DiagLines \X (1..MaxTotalFixes) : a[2] <= Len(Output[a[1]].Hints)}

Earlier(a, b) == a[1] < b[1] \/ (a[1] = b[1] /\ a[2] < b[2])

Hint(a) == Output[a[1]].Hints[a[2]]

\* Whether the output says edit a was applied.
NotedApplied(a) ==
    /\ a[2] <= Len(FixNotesAfter(a[1]))
    /\ FixNotesAfter(a[1])[a[2]].Kind = "note_fixit_applied"

\* [b1, e1) and [b2, e2) intersect.
RangesOverlap(b1, e1, b2, e2) ==
    (IF b1 > b2 THEN b1 ELSE b2) < (IF e1 < e2 THEN e1 ELSE e2)

HintsOverlap(h, g) ==
    /\ h.Begin.File = g.Begin.File
    /\ RangesOverlap(h.Begin.Offset, h.End.Offset, g.Begin.Offset, g.End.Offset)

ReplacementsOverlap(r, q) ==
    /\ r.FilePath = q.FilePath
    /\ RangesOverlap(r.Offset, r.Offset + r.Length, q.Offset, q.Offset + q.Length)

RECURSIVE CountFixes(_)
CountFixes(Errors) ==
    IF Errors = <<>> THEN 0 ELSE Len(Head(Errors).Fix) + CountFixes(Tail(Errors))

\* The Replacements of Errors that name a readable file.
RECURSIVE CountWritable(_)
CountWritable(Errors) ==
    IF Errors = <<>> THEN 0
    ELSE Cardinality({i \in DOMAIN Head(Errors).Fix :
                         Head(Errors).Fix[i].FilePath \in ReadableFiles})
         + CountWritable(Tail(Errors))

Untouched == [f \in ReadableFiles |-> <<>>]

\* ------------------------------------------------------------------ claims

\* C1: after handleErrors has processed the errors with fixes applied, no two
\* accepted Replacements of one file have intersecting ranges.
C1_NonOverlap ==
    pc = "done" /\ ApplyFixes =>
        \A f \in ReadableFiles : \A i, j \in DOMAIN Rewrite[f] :
            i < j => ~ReplacementsOverlap(Rewrite[f][i], Rewrite[f][j])

\* C2: first seen wins: an edit of a readable file is noted as applied if and
\* only if its range overlaps no edit of that file noted as applied earlier in
\* report order; a later overlapping edit is noted as failed.
C2_FirstSeenWins ==
    ApplyFixes =>
        \A a \in Attempts :
            Hint(a).Begin.File \in ReadableFiles =>
                (NotedApplied(a) <=>
                    ~\E b \in Attempts :
                        /\ Earlier(b, a)
                        /\ NotedApplied(b)
                        /\ HintsOverlap(Hint(b), Hint(a)))

\* C3, as claimed: whatever ApplyFixes is, each reported diagnostic is followed
\* by as many fix notes as it has Replacements.
C3_NotesAlways ==
    \A k \in DiagLines : Len(FixNotesAfter(k)) = Len(Output[k].Hints)

\* C3, amended: every error whose reportDiagnostic call has returned shows
\* in the output with one hint per Replacement; with ApplyFixes it is followed
\* by one fix note per Replacement, at the edit's start and in edit order, and
\* without ApplyFixes by no fix note at all.
C3_NotesWhenApplying ==
    /\ pc # "aborted" => Cardinality(DiagLines) = Len(Reported)
    /\ \A k \in DiagLines :
          LET n == Cardinality({j \in DiagLines : j <= k})
              Notes == FixNotesAfter(k)
          IN  /\ Len(Output[k].Hints) = Len(Reported[n].Fix)
              /\ IF ApplyFixes
                 THEN /\ Len(Notes) = Len(Reported[n].Fix)
                      /\ \A i \in DOMAIN Notes :
                            Notes[i].Loc = getLocation(Reported[n].Fix[i].FilePath,
                                                       Reported[n].Fix[i].Offset)
                 ELSE Notes = <<>>

\* C3's case: with ApplyFixes, a diagnostic with two Replacements, one noted
\* as applied and one as failed, has been reported.
C3_Witness ==
    /\ ApplyFixes
    /\ \E k \in DiagLines :
          /\ Len(Output[k].Hints) = 2
          /\ {L.Kind : L \in Range(FixNotesAfter(k))}
                = {"note_fixit_applied", "note_fixit_failed"}

\* C4, as claimed: a dry run ends with the ledger of the real run on the same
\* errors (TotalFixes, and AppliedFixes counting the edits that would apply)
\* and leaves the files unchanged.
C4_DryRunParity ==
    pc = "done" /\ ~ApplyFixes =>
        /\ TotalFixes = CountFixes(Reported)
        /\ AppliedFixes = CountWritable(Reported)
        /\ Disk = Untouched

\* C4, amended: a dry run never counts an applied fix (AppliedFixes stays 0),
\* buffers no edit and leaves every file unchanged; a run that reaches Finish
\* ends with TotalFixes the number of Replacements of its errors whatever
\* ApplyFixes is, and the real run with AppliedFixes the number of those that
\* name a readable file.
C4_DryRunLedger ==
    /\ ~ApplyFixes =>
          /\ AppliedFixes = 0
          /\ Rewrite = Untouched
          /\ Disk = Untouched
          /\ \A f \in ReadableFiles : Writes[f] = 0
    /\ pc = "done" =>
          /\ TotalFixes = CountFixes(Reported)
          /\ ApplyFixes => AppliedFixes = CountWritable(Reported)

\* C4's case: a dry run has finished over errors with two Replacements that
\* a real run would apply.
C4_Witness ==
    /\ pc = "done"
    /\ ~ApplyFixes
    /\ TotalFixes = 2
    /\ CountWritable(Reported) = 2

\* C5: the ledger: AppliedFixes <= TotalFixes, TotalFixes is the number of
\* Replacements processed, and AppliedFixes is the number of processed edits
\* that were applied and conflict with no edit applied before them.
C5_Ledger ==
    pc # "aborted" =>
        /\ AppliedFixes <= TotalFixes
        /\ TotalFixes = CountFixes(Reported)
        /\ AppliedFixes =
              Cardinality({a \in Attempts :
                  /\ NotedApplied(a)
                  /\ ~\E b \in Attempts :
                        /\ Earlier(b, a)
                        /\ NotedApplied(b)
                        /\ HintsOverlap(Hint(b), Hint(a))})

\* C6: the Replacements of one diagnostic are applied all or none: its fix
\* notes never mix applied and failed.
C6_AllOrNone ==
    ApplyFixes =>
        \A k \in DiagLines :
            Cardinality({L.Kind : L \in Range(FixNotesAfter(k))}) <= 1

\* C10: a file that cannot be read does not stop the run: its edits are noted
\* as failed and never buffered, and handleErrors goes on to Finish.
C10_IOErrorsIsolated ==
    /\ pc # "aborted"
    /\ ApplyFixes =>
          \A a \in Attempts :
              Hint(a).Begin.File \in UnreadableFiles => ~NotedApplied(a)

\* --------------------------------------------------- reading the factory

AnalyzerNames == {AnalyzerCheckNamePrefix \o c : c \in Range(StaticAnalyzerChecks)}

CoreCheckers == {c \in Range(StaticAnalyzerChecks) : startswith(c, StrCore)}

DebugCheckers == {c \in Range(StaticAnalyzerChecks) : startswith(c, StrDebug)}

EnabledCheckers ==
    {c \in Range(StaticAnalyzerChecks) :
        isCheckEnabled(Filter, AnalyzerCheckNamePrefix \o c)}

\* The checkers of the control list CreateASTConsumer stored.
ListedCheckers == {CheckersControlList[i][1] : i \in DOMAIN CheckersControlList}

Sorted(names) ==
    \A i \in DOMAIN names : i + 1 \in DOMAIN names => StrLess(names[i], names[i + 1])

\* The rule list ["*", "-clang-analyzer-*"].
AllButAnalyzer ==
    << [Positive |-> TRUE, Glob |-> <<"*">>],
       [Positive |-> FALSE, Glob |-> AnalyzerCheckNamePrefix \o <<"*">>] >>

\* C7, as claimed: the analyzer runs only if an analyzer-prefixed name is
\* enabled, and whenever any analyzer check is enabled the control list holds
\* every core checker.
C7_AnyAnalyzerCheck ==
    "CreateASTConsumer" \in Called =>
        /\ CheckersControlList # <<>> => EnabledCheckers # {}
        /\ EnabledCheckers # {} => CoreCheckers \subseteq ListedCheckers

\* C7, amended: the control list is non-empty, and the analysis consumer is
\* added, only if an analyzer-prefixed name is enabled; whenever an analyzer
\* check outside the debug package is enabled the list holds every core
\* checker, flagged true, the core checkers the filter disables included.
C7_AnalyzerCoupling ==
    "CreateASTConsumer" \in Called =>
        /\ CheckersControlList # <<>> => EnabledCheckers # {}
        /\ "AnalysisConsumer" \in Range(Consumers) <=> CheckersControlList # <<>>
        /\ EnabledCheckers \ DebugCheckers # {} =>
              \A c \in CoreCheckers : <<c, TRUE>> \in Range(CheckersControlList)

\* C7's case: a consumer was created under a filter that enables an analyzer
\* check and disables a core checker, and the list holds that core checker.
C7_Witness ==
    /\ "CreateASTConsumer" \in Called
    /\ EnabledCheckers \ DebugCheckers # {}
    /\ \E c \in CoreCheckers \ EnabledCheckers : c \in ListedCheckers

\* C8, as claimed: the inventory is the sorted list of exactly the known
\* names, ordinary and analyzer-prefixed, that the filter enables.
C8_PureFilterSort ==
    "getCheckNames" \in Called =>
        /\ Sorted(CheckNames)
        /\ Range(CheckNames) =
              {n \in Range(CheckFactories) \cup AnalyzerNames : isCheckEnabled(Filter, n)}

\* C8, amended: the inventory is the sorted, duplicate-free list of the
\* enabled ordinary names together with the prefixed analyzer names that are,
\* when an analyzer check outside the debug package is enabled, the core
\* checkers and the enabled checkers outside the debug package, and none
\* otherwise; under ["*", "-clang-analyzer-*"] it is the ordinary names.
C8_Inventory ==
    "getCheckNames" \in Called =>
        /\ Sorted(CheckNames)
        /\ Range(CheckNames) =
              {n \in Range(CheckFactories) : isCheckEnabled(Filter, n)}
              \cup {AnalyzerCheckNamePrefix \o c :
                      c \in {d \in Range(StaticAnalyzerChecks) :
                                /\ EnabledCheckers \ DebugCheckers # {}
                                /\ d \in CoreCheckers \cup (EnabledCheckers \ DebugCheckers)}}
        /\ Filter.Rules = AllButAnalyzer => CheckNames = CheckFactories

\* C8's case: an inventory of an ordinary name that sorts before the analyzer
\* names, analyzer names, and an ordinary name that sorts after them.
C8_Witness ==
    /\ "getCheckNames" \in Called
    /\ Len(CheckNames) >= 4
    /\ CheckNames[1] = CheckFactories[1]
    /\ CheckNames[Len(CheckNames)] = CheckFactories[2]

\* --------------------------------------------------- reading Context.diag

\* The number of Context.diag calls the first n path diagnostics make.
RECURSIVE CallsBefore(_)
CallsBefore(n) ==
    IF n = 0 THEN 0
    ELSE CallsBefore(n - 1) + 1 + Len(flatten(Flushed[n].path, TRUE))

\* C9: for each path diagnostic of the batch, in batch order, one primary
\* diagnostic (Warning, the short description, prefix + checker name) is
\* reported, then one Note per step of the flattened path in path order
\* under the same name, and only then the next path diagnostic's primary.
C9_MergeOrder ==
    "FlushDiagnosticsImpl" \in Called =>
        /\ Len(ContextDiags) = CallsBefore(Len(Flushed))
        /\ \A n \in DOMAIN Flushed :
              LET PD == Flushed[n]
                  at == CallsBefore(n - 1) + 1
                  Steps == flatten(PD.path, TRUE)
              IN  /\ ContextDiags[at].Level = "Warning"
                  /\ ContextDiags[at].Message = PD.ShortDescription
                  /\ ContextDiags[at].CheckName = AnalyzerCheckNamePrefix \o PD.CheckName
                  /\ ContextDiags[at].Loc = PD.Loc
                  /\ \A i \in DOMAIN Steps :
                        /\ ContextDiags[at + i].Level = "Note"
                        /\ ContextDiags[at + i].Message = Steps[i].String
                        /\ ContextDiags[at + i].Loc = Steps[i].Loc
                        /\ ContextDiags[at + i].CheckName
                              = AnalyzerCheckNamePrefix \o PD.CheckName

\* C9's case: a batch of two path diagnostics of different checkers was
\* flushed, the first with a path of several steps, a macro's among them.
C9_Witness ==
    /\ "FlushDiagnosticsImpl" \in Called
    /\ Len(Flushed) = 2
    /\ Flushed[1].CheckName # Flushed[2].CheckName
    /\ Len(Flushed[1].path) = 2
    /\ Len(flatten(Flushed[1].path, TRUE)) = 3

\* ------------------------------------------------------ the write phase

\* Whether Finish writes the summary and overwrites the changed files.
WritePhaseRuns == ApplyFixes /\ TotalFixes > 0

\* C11, in every state: what has been written, and when.
C11_State ==
    /\ pc # "done" =>
          /\ Errs = <<>>
          /\ Disk = Untouched
          /\ \A f \in ReadableFiles : Writes[f] = 0
    /\ pc = "done" =>
          /\ Errs = IF WritePhaseRuns
                    THEN <<[Applied |-> AppliedFixes, Of |-> TotalFixes]>>
                    ELSE <<>>
          /\ \A f \in ReadableFiles :
                IF WritePhaseRuns /\ Rewrite[f] # <<>>
                THEN Writes[f] = 1 /\ Disk[f] = Rewrite[f]
                ELSE Writes[f] = 0 /\ Disk[f] = <<>>
    /\ ~ApplyFixes => Disk = Untouched /\ \A f \in ReadableFiles : Writes[f] = 0

\* C11, in every step: which step writes, and that none follows Finish.
C11_Step ==
    /\ (Disk' # Disk \/ Writes' # Writes \/ Errs' # Errs) =>
          pc = "reporting" /\ pc' = "done"
    /\ Reported' # Reported => pc = "reporting" /\ pc' # "done"
    /\ pc \in {"done", "aborted"} => UNCHANGED vars

\* C11: files are overwritten, and the summary written, only by the step
\* that is Finish; after Finish no diagnostic is reported and Finish does not
\* run again; Finish writes the summary "applied AppliedFixes of TotalFixes"
\* and overwrites each changed file, once, exactly when ApplyFixes and
\* TotalFixes > 0; without ApplyFixes no file is ever written.
C11_WritePhase == []C11_State /\ [][C11_Step]_vars

\* C11's case: a run with ApplyFixes has reported two errors and finished,
\* and both files were overwritten.
C11_Witness ==
    /\ pc = "done"
    /\ ApplyFixes
    /\ Len(Reported) = 2
    /\ \A f \in ReadableFiles : Writes[f] = 1

\* ------------------------------------------------- the control list, whole

\* The place of a checker in the checker table.
TableIndex(c) == CHOOSE i \in DOMAIN StaticAnalyzerChecks : StaticAnalyzerChecks[i] = c

\* C12: the control list is empty when no checker outside the debug package
\* has its prefixed name enabled; otherwise it holds, in table order and each
\* flagged true, exactly the core checkers and the enabled checkers outside
\* the debug package. A debug checker is never in the list nor in the
\* inventory, and enabling only debug checkers adds no analysis consumer.
C12_ControlList ==
    /\ "CreateASTConsumer" \in Called =>
          /\ EnabledCheckers \ DebugCheckers = {} =>
                /\ CheckersControlList = <<>>
                /\ "AnalysisConsumer" \notin Range(Consumers)
          /\ EnabledCheckers \ DebugCheckers # {} =>
                /\ ListedCheckers = CoreCheckers \cup (EnabledCheckers \ DebugCheckers)
                /\ \A i \in DOMAIN CheckersControlList : CheckersControlList[i][2] = TRUE
                /\ \A i, j \in DOMAIN CheckersControlList :
                      i < j => TableIndex(CheckersControlList[i][1])
                                  < TableIndex(CheckersControlList[j][1])
          /\ ListedCheckers \cap DebugCheckers = {}
    /\ "getCheckNames" \in Called =>
          \A d \in DebugCheckers : AnalyzerCheckNamePrefix \o d \notin Range(CheckNames)

\* C12's case: under a filter that enables a debug checker and a checker
\* outside the debug package but not every core checker, the consumer was
\* created with a list of three checkers and the inventory was taken.
C12_Witness ==
    /\ Called = {"CreateASTConsumer", "getCheckNames"}
    /\ DebugCheckers \subseteq EnabledCheckers
    /\ CoreCheckers \ EnabledCheckers # {}
    /\ Len(CheckersControlList) = 3
    /\ Len(CheckNames) >= 3

====
